---- MODULE Spec2Model ----
(***************************************************************************)
(* Query-builder subsystem of the XYZ Company database application:        *)
(* the /api/query-builder routes of the server (query, sql, count), the    *)
(* part of the MySQL engine they rely on (sessions of the connection pool, *)
(* transactions, key and foreign-key constraints of the DDL), and the      *)
(* UPDATE flow of the CustomQuery client component (record preview,        *)
(* reference guard, cascade script).                                       *)
(***************************************************************************)
EXTENDS Integers, Sequences, FiniteSets, TLC

(* ------------------------------ bounds -------------------------------- *)
\* values a column can hold (keys and plain values alike)
MaxVal == 3
\* sessions of the connection pool
NumConns == 2
\* requests sent straight to the API, without the client component
MaxDirect == 2
\* times the user of the component presses "Run Query"
MaxRuns == 1

Vals == 1..MaxVal
Conns == 1..NumConns

(* ------------------------------ schema -------------------------------- *)
Tables == {"Employee", "Customer"}

\* two more tables of the database, which only the requests of SpecReq use:
\* one with a text column, one with an auto-generated key
MoreTables == {"Person", "departments"}

Columns(t) ==
  CASE t = "Employee"    -> {"EmpID", "SupervisorID", "Title"}
    [] t = "Person"      -> {"PersonID", "LName"}
    [] t = "departments" -> {"dept_id", "dept_name"}
    [] OTHER             -> {"CustID", "PreferredRep"}

\* PRIMARY KEY of each table, as information_schema reports it
PrimaryKeys(t) ==
  CASE t = "Employee"    -> {"EmpID"}
    [] t = "Person"      -> {"PersonID"}
    [] t = "departments" -> {"dept_id"}
    [] OTHER             -> {"CustID"}

\* columns the engine fills in when the INSERT leaves them out (increments)
AutoColumns(t) == IF t = "departments" THEN {"dept_id"} ELSE {}

\* columns declared unique besides the primary key
UniqueColumns(t) == IF t = "departments" THEN {"dept_name"} ELSE {}

\* FOREIGN KEY constraints between the modelled tables (none of them cascades)
ForeignKeys ==
  { [owner |-> "Employee", fromColumn |-> "SupervisorID", table |-> "Employee", toColumn |-> "EmpID"],
    [owner |-> "Customer", fromColumn |-> "PreferredRep", table |-> "Employee", toColumn |-> "EmpID"] }

\* the TableSchema list the client holds (GET /schema): tables in catalog
\* order, each with the relationships it owns
SchemaOrder == <<"Customer", "Employee">>

Relationships(t) ==
  IF t = "Employee"
    THEN << [table |-> "Employee", fromColumn |-> "SupervisorID", toColumn |-> "EmpID"] >>
    ELSE << [table |-> "Employee", fromColumn |-> "PreferredRep", toColumn |-> "EmpID"] >>

\* users of the application and the permissions they hold
Callers == {"writer", "reader"}

Permissions(u) ==
  IF u = "writer" THEN {"write_query"} ELSE {"read_query"}

hasPermission(u, p) == p \in Permissions(u) \/ "admin" \in Permissions(u)

(* ------------------------------ engine -------------------------------- *)
\* JavaScript's undefined: no column holds it
Undef == 0

NoMap == [c \in {} |-> 0]

\* f overridden by g on the keys of g
Merge(f, g) ==
  [c \in DOMAIN f \cup DOMAIN g |-> IF c \in DOMAIN g THEN g[c] ELSE f[c]]

Restrict(f, S) == [c \in S |-> f[c]]

\* A value is written as a number and read as text through its decimal
\* digits, the way a template string or the engine's cast to text reads it;
\* the digit 9 stands for the character % (no stored value contains it).
Percent == 9

RECURSIVE Chars(_)
Chars(n) == IF n < 10 THEN <<n>> ELSE Append(Chars(n \div 10), n % 10)

RECURSIVE Text(_)
Text(chars) ==
  IF chars = <<>> THEN 0 ELSE 10 * Text(SubSeq(chars, 1, Len(chars) - 1)) + chars[Len(chars)]

\* `${a}${b}`
Concat(a, b) == Text(Chars(a) \o Chars(b))

\* text LIKE pattern: % stands for any run of characters
RECURSIVE LikeChars(_, _)
LikeChars(a, p) ==
  IF p = <<>> THEN a = <<>>
  ELSE IF Head(p) = Percent
    THEN LikeChars(a, Tail(p)) \/ (a # <<>> /\ LikeChars(Tail(a), p))
  ELSE a # <<>> /\ Head(a) = Head(p) /\ LikeChars(Tail(a), Tail(p))

Like(a, p) == a # Undef /\ LikeChars(Chars(a), Chars(p))

Cmp(op, a, b) ==
  CASE op = "="    -> a = b
    [] op = "!="   -> a # b
    [] op = ">"    -> a > b
    [] op = "<"    -> a < b
    [] op = "LIKE" -> Like(a, b)
    [] OTHER       -> FALSE

\* WHERE c1 AND c2 ...
Match(row, conds) ==
  \A i \in DOMAIN conds : Cmp(conds[i].operator, row[conds[i].field], conds[i].value)

Rows(data, t, conds) == {r \in data[t] : Match(r, conds)}

UniqueKeys(data, t) ==
  \A r1, r2 \in data[t] :
    /\ (\A c \in PrimaryKeys(t) : r1[c] = r2[c]) => r1 = r2
    /\ \A c \in UniqueColumns(t) : r1[c] = r2[c] => r1 = r2

\* CONSTRAINT chk_emp_not_self_supervisor
CheckOk(data) == \A r \in data["Employee"] : r["SupervisorID"] # r["EmpID"]

Outcome(err, data, n, blocker) ==
  [err |-> err, data |-> data, n |-> n, blocker |-> blocker]

NoBlocker == [table |-> "", column |-> ""]

\* outcome of replacing the rows `old` of t by the rows `new`
\* (old is empty for INSERT, new is empty for DELETE)
Apply(data, fkOn, t, old, new) ==
  LET next    == [data EXCEPT ![t] = (@ \ old) \cup new]
      gone    == {k \in ForeignKeys :
                    /\ k.table = t
                    /\ \E o \in old :
                         /\ ~ \E p \in next[t] : p[k.toColumn] = o[k.toColumn]
                         /\ \E r \in next[k.owner] : r[k.fromColumn] = o[k.toColumn]}
      missing == {k \in ForeignKeys :
                    /\ k.owner = t
                    /\ \E r \in new \ old :
                         ~ \E p \in next[k.table] : p[k.toColumn] = r[k.fromColumn]}
  IN  IF Cardinality(next[t]) # Cardinality(data[t]) - Cardinality(old) + Cardinality(new)
           \/ ~ UniqueKeys(next, t)
        THEN Outcome("ER_DUP_ENTRY", data, 0, NoBlocker)
      ELSE IF ~ CheckOk(next)
        THEN Outcome("ER_CHECK_CONSTRAINT_VIOLATED", data, 0, NoBlocker)
      ELSE IF fkOn /\ gone # {}
        THEN LET k == CHOOSE x \in gone : TRUE
             IN  Outcome("ER_ROW_IS_REFERENCED_2", data, 0,
                         [table |-> k.owner, column |-> k.fromColumn])
      ELSE IF fkOn /\ missing # {}
        THEN LET k == CHOOSE x \in missing : TRUE
             IN  Outcome("ER_NO_REFERENCED_ROW_2", data, 0,
                         [table |-> k.table, column |-> k.toColumn])
      ELSE Outcome("", next, Cardinality(old), NoBlocker)

ExecUpdate(data, fkOn, t, set, conds) ==
  LET old == Rows(data, t, conds)
      chg == {r \in old : Merge(r, set) # r}
  IN  Apply(data, fkOn, t, chg, {Merge(r, set) : r \in chg})

ExecDelete(data, fkOn, t, conds) ==
  Apply(data, fkOn, t, Rows(data, t, conds), {})

\* the value the engine generates for an auto-generated column
Generated(data, t, c) ==
  LET used == {r[c] : r \in data[t]}
  IN  IF used = {} THEN 1 ELSE 1 + CHOOSE m \in used : \A x \in used : x <= m

\* a supplied value for an auto-generated column is stored as supplied
ExecInsert(data, fkOn, t, row) ==
  LET full == Merge([c \in AutoColumns(t) |-> Generated(data, t, c)], row)
  IN  IF DOMAIN full # Columns(t)
        THEN Outcome("ER_NO_DEFAULT_FOR_FIELD", data, 0, NoBlocker)
        ELSE LET o == Apply(data, fkOn, t, {}, {full})
             IN  IF o.err = "" THEN [o EXCEPT !.n = 1] ELSE o

\* SQL NULL, which the outer joins put in the columns of the missing side
Null == Undef

\* one join of the builder applied to the rows selected so far
JoinStep(rows, cols, data, j, method) ==
  LET right   == data[j.toTable]
      on(l, r) == l[j.fromColumn] = r[j.toColumn]
      inner   == {Merge(l, r) : <<l, r>> \in {x \in rows \X right : on(x[1], x[2])}}
      lonely  == {Merge(l, [c \in Columns(j.toTable) |-> Null]) :
                    l \in {x \in rows : ~ \E r \in right : on(x, r)}}
      orphan  == {Merge([c \in cols |-> Null], r) :
                    r \in {x \in right : ~ \E l \in rows : on(l, x)}}
  IN  CASE method \in {"leftJoin", "leftOuterJoin"}   -> inner \cup lonely
        [] method \in {"rightJoin", "rightOuterJoin"} -> inner \cup orphan
        [] method \in {"fullOuterJoin", "outerJoin"}  -> inner \cup lonely \cup orphan
        [] OTHER                                      -> inner

RECURSIVE JoinRows(_, _, _, _)
JoinRows(rows, cols, data, joins) ==
  IF joins = <<>> THEN rows
  ELSE JoinRows(JoinStep(rows, cols, data, Head(joins).on, Head(joins).method),
                cols \cup Columns(Head(joins).on.toTable), data, Tail(joins))

\* rows a SELECT statement returns
SelectRows(data, st) ==
  IF "joins" \in DOMAIN st
    THEN {r \in JoinRows(data[st.table], Columns(st.table), data, st.joins) : Match(r, st.where)}
    ELSE Rows(data, st.table, st.where)

(* ------------------------------- state -------------------------------- *)
VARIABLES
  db,       \* committed rows of every table
  sess,     \* per pooled connection: foreign_key_checks, open transaction
  pending,  \* uncommitted rows of the one transaction that has written
  run,      \* the multi-statement script POST /sql is executing
  last,     \* the request completed last: what it was, what it issued, its reply
  cl,       \* state of the CustomQuery component
  direct    \* number of requests sent straight to the API so far

vars == <<db, sess, pending, run, last, cl, direct>>

NoConn == 0

\* rows as the session c sees them: its own uncommitted changes included
View(c) == IF pending.conn = c THEN pending.data ELSE db

\* another session holds the row locks of its uncommitted changes
LockedOut(c) == pending.conn # NoConn /\ pending.conn # c

\* connections the pool can hand out
Idle == {c \in Conns : run.conn # c}

(* ----------------------------- statements ----------------------------- *)
\* one statement as the engine receives it: `bound` are the values passed as
\* bindings, `text` the values written into the SQL string itself
Stmt(kind, table, set, where, text, bound) ==
  [kind |-> kind, table |-> table, set |-> set, where |-> where,
   text |-> text, bound |-> bound]

CondVals(conds) == {conds[i].value : i \in DOMAIN conds}
MapVals(f) == {f[c] : c \in DOMAIN f}

\* statement built by the knex query builder: every value is a binding
Built(kind, table, set, where) ==
  Stmt(kind, table, set, where, {}, CondVals(where) \cup MapVals(set))

WriteKinds == {"insert", "update", "delete"}

\* what the request log keeps of a statement
Logged(st) ==
  [kind |-> st.kind, table |-> st.table, cols |-> DOMAIN st.set, text |-> st.text]

\* the engine runs statement st in session c
Engine(c, st) ==
  IF st.kind \in WriteKinds /\ LockedOut(c)
    THEN Outcome("ER_LOCK_WAIT_TIMEOUT", View(c), 0, NoBlocker)
  ELSE IF st.kind = "update"
    THEN ExecUpdate(View(c), sess[c].fk, st.table, st.set, st.where)
  ELSE IF st.kind = "delete"
    THEN ExecDelete(View(c), sess[c].fk, st.table, st.where)
  ELSE IF st.kind = "insert"
    THEN ExecInsert(View(c), sess[c].fk, st.table, st.set)
  ELSE Outcome("", View(c), 0, NoBlocker)

(* --------------------------- POST /query ------------------------------ *)
ErrNoTable       == "Table not specified"
ErrNoInsert      == "No values supplied for INSERT"
ErrPkRefused     == "Refusing to update primary-key column(s)"
ErrNoUpdate      == "No column values supplied for UPDATE"
ErrUpdateNoWhere == "Refusing to UPDATE without WHERE clause"
ErrDeleteNoWhere == "Refusing to DELETE without WHERE clause"
ErrUnsupported   == "Unsupported operation"
ErrFkBlocked     == "Delete blocked by foreign-key constraint"

ErrInvalidJoin   == "Invalid join type"

Request(operation, table, conditions, updates, data) ==
  [operation |-> operation, table |-> table, conditions |-> conditions,
   updates |-> updates, data |-> data]

\* reply of a handler: HTTP status, error text, the blocking reference the
\* engine message names, the statements issued, the rows of the session
\* afterwards, the result rows
Reply(status, error, blocker, stmts, data, rows) ==
  [status |-> status, error |-> error, blocker |-> blocker, stmts |-> stmts,
   data |-> data, rows |-> rows]

\* the UPDATE case without step 2: the requested updates as they came
safeUpdatesKeepingKeys(updates, pkCols) == updates

\* step 2 of the UPDATE case: drop the primary-key fields
safeUpdates(updates, pkCols) == Restrict(updates, DOMAIN updates \ pkCols)

\* the methods of the query builder whose name ends in Join
knexJoinMethods ==
  {"innerJoin", "leftJoin", "leftOuterJoin", "rightJoin", "rightOuterJoin",
   "outerJoin", "fullOuterJoin", "crossJoin"}

toLowerCase(str) ==
  CASE str = "INNER" -> "inner"
    [] str = "LEFT"  -> "left"
    [] str = "RIGHT" -> "right"
    [] str = "FULL"  -> "full"
    [] OTHER         -> str

\* `${j.joinType.toLowerCase()}Join`
joinMethod(j) == toLowerCase(j.joinType) \o "Join"

\* joins = [] when the request names none
joinsOf(req) == IF "joins" \in DOMAIN req THEN req.joins ELSE <<>>

\* the query after the joins loop
withJoins(st, joins) ==
  IF joins = <<>> THEN st
  ELSE [f \in DOMAIN st \cup {"joins"} |->
          IF f = "joins"
            THEN [i \in DOMAIN joins |-> [method |-> joinMethod(joins[i]), on |-> joins[i]]]
            ELSE st[f]]

\* the SELECT case wraps the value of a LIKE condition in wildcards
wrapLike(conditions) ==
  [i \in DOMAIN conditions |->
     IF conditions[i].operator = "LIKE"
       THEN [conditions[i] EXCEPT !.value = Concat(Concat(Percent, @), Percent)]
       ELSE conditions[i]]

\* `await query` and the catch around it
Execute(c, before, st) ==
  LET o == Engine(c, st)
  IN  IF o.err = ""
        THEN Reply(200, "", NoBlocker, before \o <<st>>, o.data,
                   IF st.kind = "select" THEN SelectRows(View(c), st) ELSE {})
      ELSE IF o.err \in {"ER_ROW_IS_REFERENCED_2", "ER_ROW_IS_REFERENCED"}
        THEN Reply(409, ErrFkBlocked, o.blocker, before \o <<st>>, View(c), {})
      ELSE Reply(500, o.err, NoBlocker, before \o <<st>>, View(c), {})

\* `!conditions` in place of `!conditions.length`: an empty list is truthy
hasNoConditionsTruthy(conditions) == FALSE

\* !conditions.length
hasNoConditions(conditions) == Len(conditions) = 0

Refuse(c, status, error, stmts) == Reply(status, error, NoBlocker, stmts, View(c), {})

\* !Object.keys(toInsert).length
hasNoKeys(toInsert) == DOMAIN toInsert = {}

\* data || Object.fromEntries(conditions.map(c => [c.field, c.value]))
toInsert(req) ==
  IF "data" \in DOMAIN req THEN req.data
  ELSE [f \in {req.conditions[i].field : i \in DOMAIN req.conditions} |->
          LET last_i == CHOOSE i \in DOMAIN req.conditions :
                          /\ req.conditions[i].field = f
                          /\ \A j \in DOMAIN req.conditions :
                               req.conditions[j].field = f => j <= i
          IN  req.conditions[last_i].value]

QueryHandler(c, req) ==
  LET joins    == joinsOf(req)
      Q(k, set, where) == withJoins(Built(k, req.table, set, where), joins)
  IN
  IF req.table = "" THEN Refuse(c, 500, ErrNoTable, <<>>)
  ELSE IF \E i \in DOMAIN joins : joinMethod(joins[i]) \notin knexJoinMethods
    THEN Refuse(c, 500, ErrInvalidJoin, <<>>)
  ELSE IF req.operation = "SELECT"
    THEN Execute(c, <<>>, Q("select", NoMap, wrapLike(req.conditions)))
  ELSE IF req.operation = "INSERT"
    THEN IF hasNoKeys(toInsert(req))
           THEN Refuse(c, 500, ErrNoInsert, <<>>)
           ELSE Execute(c, <<>>, Q("insert", toInsert(req), <<>>))
  ELSE IF req.operation = "UPDATE"
    THEN LET catalog == <<Stmt("catalog", req.table, NoMap, <<>>, {}, {})>>
             pkCols  == PrimaryKeys(req.table)
             safe    == safeUpdates(req.updates, pkCols)
         IN  IF DOMAIN safe = {}
               THEN Refuse(c, 400, ErrPkRefused, catalog)
             ELSE IF DOMAIN req.updates = {}
               THEN Refuse(c, 500, ErrNoUpdate, catalog)
             ELSE IF hasNoConditions(req.conditions)
               THEN Refuse(c, 500, ErrUpdateNoWhere, catalog)
             ELSE Execute(c, catalog, Q("update", safe, req.conditions))
  ELSE IF req.operation = "DELETE"
    THEN IF hasNoConditions(req.conditions)
           THEN Refuse(c, 500, ErrDeleteNoWhere, <<>>)
           ELSE Execute(c, <<>>, Q("delete", NoMap, req.conditions))
  ELSE Refuse(c, 500, ErrUnsupported, <<>>)

(* --------------------------- POST /count ------------------------------ *)
ErrNoConds == "No valid conditions supplied"

\* conditions that survive the validConds filter (an undefined value is
\* dropped by the JSON encoding of the request)
validConds(conditions) ==
  SelectSeq(conditions, LAMBDA x : x.field # "" /\ x.operator # "" /\ x.value # Undef)

CountHandler(c, table, conditions) ==
  IF table = "" THEN Refuse(c, 400, ErrNoTable, <<>>)
  ELSE IF Len(validConds(conditions)) = 0 THEN Refuse(c, 400, ErrNoConds, <<>>)
  ELSE LET st == Built("count", table, NoMap, validConds(conditions))
       IN  Reply(200, "", NoBlocker, <<st>>, View(c),
                 Rows(View(c), table, validConds(conditions)))

\* GET /count: the conditions of the query string are applied as they come
GetCountHandler(c, table, conditions) ==
  IF table = "" THEN Refuse(c, 400, ErrNoTable, <<>>)
  ELSE LET st == Built("count", table, NoMap, conditions)
       IN  Reply(200, "", NoBlocker, <<st>>, View(c), Rows(View(c), table, conditions))

(* --------------------------- request record --------------------------- *)
\* the key change a script was built for
Change(table, column, old, new) == [table |-> table, column |-> column, old |-> old, new |-> new]
NoChange == Change("", "", Undef, Undef)

\* rows of `rows` that a row of some table still refers to
Referenced(data, t, rows) ==
  {r \in rows : \E k \in ForeignKeys :
      /\ k.table = t
      /\ \E x \in data[k.owner] \ rows : x[k.fromColumn] = r[k.toColumn]}

Entry(endpoint, origin, caller, c, req, rep) ==
  [endpoint   |-> endpoint,
   origin     |-> origin,
   caller     |-> caller,
   operation  |-> req.operation,
   table      |-> req.table,
   noConds    |-> Len(req.conditions) = 0,
   updateCols |-> DOMAIN req.updates,
   referenced |-> IF req.table \in Tables
                    THEN Referenced(View(c), req.table, Rows(View(c), req.table, req.conditions)) # {}
                    ELSE FALSE,
   status     |-> rep.status,
   error      |-> rep.error,
   blocker    |-> rep.blocker,
   stmts      |-> [i \in DOMAIN rep.stmts |-> Logged(rep.stmts[i])],
   changed    |-> rep.data # View(c),
   change     |-> NoChange]

NoRequest == Request("", "", <<>>, NoMap, NoMap)

NoEntry ==
  [endpoint |-> "none", origin |-> "none", caller |-> "none",
   operation |-> "", table |-> "", noConds |-> TRUE, updateCols |-> {},
   referenced |-> FALSE, status |-> 0, error |-> "", blocker |-> NoBlocker,
   stmts |-> <<>>, changed |-> FALSE, change |-> NoChange]

(* --------------------------- session effects -------------------------- *)
EmptyData == [t \in Tables |-> {}]

NoPending == [conn |-> NoConn, data |-> EmptyData]

NoRun ==
  [conn |-> NoConn, stmts |-> <<>>, log |-> <<>>, caller |-> "none",
   origin |-> "none", base |-> EmptyData, unguarded |-> FALSE, change |-> NoChange]

\* the rows of session c become `data`: inside an open transaction they stay
\* uncommitted, otherwise the statement autocommits
Store(c, data) ==
  IF data = View(c) /\ pending.conn # c
    THEN UNCHANGED <<db, pending>>
  ELSE IF sess[c].txn
    THEN /\ pending' = [conn |-> c, data |-> data]
         /\ UNCHANGED db
  ELSE /\ db' = data
       /\ UNCHANGED pending

\* a script in flight keeps track of what other requests commit meanwhile
Track == run' = IF run.conn # NoConn THEN [run EXCEPT !.base = db'] ELSE run

(* ------------------------- CustomQuery component ---------------------- *)
MsgSuccess   == "Query executed successfully"
ErrNoCascade == "Updating primary keys without updating references can break data integrity"
ErrCascade   == "Failed to update primary key"
ErrNoRecords == "No records match these conditions"
ErrNoFields  == "Please select at least one field for your query"
MsgDeleted   == "Delete completed successfully"

\* deleteCount === null
NoCount == -1

Get(m, f) == IF f \in DOMAIN m THEN m[f] ELSE Undef

Cond(field, operator, value) == [field |-> field, operator |-> operator, value |-> value]

canModifyData(user) == hasPermission(user, "admin") \/ hasPermission(user, "write_query")

getAvailableTables(user, operation) ==
  IF operation = "SELECT" THEN Tables
  ELSE IF hasPermission(user, "write_query") \/ hasPermission(user, "admin") THEN Tables
  ELSE {}

\* the primary-key fields whose value differs from the previewed record
updatedPKs(table, updateValues, originalValues) ==
  Restrict(updateValues,
           {f \in DOMAIN updateValues \cap PrimaryKeys(table) :
              Get(originalValues, f) # updateValues[f]})

\* the non-key fields whose value differs from the previewed record
changedFields(table, updateValues, originalValues) ==
  Restrict(updateValues,
           {f \in DOMAIN updateValues \ PrimaryKeys(table) :
              Get(originalValues, f) # updateValues[f]})

\* selectedFields.filter(f => f && f.trim() !== '')
validFields(c) == {f \in c.selectedFields : f # ""}

\* the check runQuery makes before it sends a SELECT
noFieldSelected(c) ==
  /\ c.operation = "SELECT"
  /\ (Cardinality(c.selectedFields) = 0 \/ Cardinality(validFields(c)) = 0)

\* isFormValid with `>= 0` in place of `> 0` for SELECT
isFormValidAnyFields(c) ==
  /\ c.table # ""
  /\ CASE c.operation = "SELECT" -> Cardinality(c.selectedFields) >= 0
       [] c.operation = "UPDATE" ->
            /\ DOMAIN changedFields(c.table, c.updateValues, c.originalValues) # {}
            /\ Len(c.conditions) > 0
       [] c.operation = "DELETE" -> Len(c.conditions) > 0
       [] OTHER -> FALSE

\* whether "Run Query" is enabled (the INSERT form is not part of the model)
isFormValid(c) ==
  /\ c.table # ""
  /\ CASE c.operation = "SELECT" -> Cardinality(c.selectedFields) > 0
       [] c.operation = "UPDATE" ->
            /\ DOMAIN changedFields(c.table, c.updateValues, c.originalValues) # {}
            /\ Len(c.conditions) > 0
       [] c.operation = "DELETE" -> Len(c.conditions) > 0
       [] OTHER -> FALSE

\* the checks the form lists as failed under the disabled button
HintTable  == "A table is selected"
HintFields == "For SELECT: At least one field is selected"

formHints(c) ==
  IF isFormValid(c) THEN {}
  ELSE (IF c.table = "" THEN {HintTable} ELSE {})
       \cup (IF c.operation = "SELECT" /\ Cardinality(c.selectedFields) = 0
               THEN {HintFields} ELSE {})

validConditions(c) ==
  SelectSeq(c.conditions, LAMBDA x : x.field # "" /\ x.operator # "" /\ x.value # Undef)

\* the fields of a SELECT are sent along; the server returns whole rows
buildQuery(c) ==
  IF c.operation = "UPDATE"
    THEN Request("UPDATE", c.table, validConditions(c),
                 changedFields(c.table, c.updateValues, c.originalValues), NoMap)
    ELSE Merge(Request(c.operation, c.table, validConditions(c), NoMap, NoMap),
               [fields |-> validFields(c), joins |-> <<>>])

\* relationships of table t that point at a changed key of selectedTable
RefsOf(t, selectedTable, pkFields) ==
  LET rels == SelectSeq(Relationships(t),
                        LAMBDA rel : rel.table = selectedTable /\ rel.toColumn \in pkFields)
  IN  [i \in 1..Len(rels) |->
         [tableName |-> t, fromColumn |-> rels[i].fromColumn, toColumn |-> rels[i].toColumn]]

\* which tables of the schema list the scan visits
scanned(t, selectedTable) == t # selectedTable

RECURSIVE referencingFrom(_, _, _)
referencingFrom(i, selectedTable, pkFields) ==
  IF i > Len(SchemaOrder) THEN <<>>
  ELSE (IF scanned(SchemaOrder[i], selectedTable)
          THEN RefsOf(SchemaOrder[i], selectedTable, pkFields)
          ELSE <<>>)
       \o referencingFrom(i + 1, selectedTable, pkFields)

referencingTables(selectedTable, pkFields) == referencingFrom(1, selectedTable, pkFields)

\* a statement of the script: its values are written into the SQL text
Raw(kind, table, set, where) ==
  Stmt(kind, table, set, where, CondVals(where) \cup MapVals(set), {})

SetFk(on) == Stmt("set_fk", "", [foreign_key_checks |-> on], <<>>, {}, {})
StartTransaction == Stmt("start", "", NoMap, <<>>, {}, {})
Commit == Stmt("commit", "", NoMap, <<>>, {}, {})

\* the script runQuery sends to POST /sql for a primary-key change
cascadeSql(selectedTable, pks, originalValues, conditions) ==
  LET refs == referencingTables(selectedTable, DOMAIN pks)
  IN  <<SetFk(0), StartTransaction>>
      \o [i \in 1..Len(refs) |->
            Raw("update", refs[i].tableName,
                [f \in {refs[i].fromColumn} |-> pks[refs[i].toColumn]],
                <<Cond(refs[i].fromColumn, "=", Get(originalValues, refs[i].toColumn))>>)]
      \o <<Raw("update", selectedTable, pks, conditions), Commit, SetFk(1)>>

\* runQuery without the check of the cascade option
optedInAlways(updateReferences) == TRUE

\* whether the caller asked for the cascade
optedIn(updateReferences) == updateReferences

\* the choice runQuery makes for an UPDATE
route(c) ==
  LET pks == updatedPKs(c.table, c.updateValues, c.originalValues)
  IN  IF c.operation # "UPDATE" \/ DOMAIN pks = {} THEN "standard"
      ELSE IF optedIn(c.updateReferences)
        THEN IF Len(referencingTables(c.table, DOMAIN pks)) > 0 THEN "cascade" ELSE "standard"
      ELSE "refused"

(* -------------------------------- Init -------------------------------- *)
Employee(id, sup, title) == [EmpID |-> id, SupervisorID |-> sup, Title |-> title]
Customer(id, rep) == [CustID |-> id, PreferredRep |-> rep]

InitData ==
  [t \in Tables |->
     IF t = "Employee" THEN {Employee(1, 2, 1), Employee(2, 1, 1)}
     ELSE {Customer(1, 1)}]

InitClient(u) ==
  [user |-> u, operation |-> "SELECT", table |-> "", conditions |-> <<>>,
   originalValues |-> NoMap, updateValues |-> NoMap, updateReferences |-> TRUE,
   affected |-> <<>>, warning |-> FALSE, countFailed |-> FALSE,
   loading |-> FALSE, error |-> "", success |-> "", runs |-> 0,
   selectedFields |-> {}, deleteCount |-> NoCount]

Init ==
  /\ db = InitData
  /\ sess = [c \in Conns |-> [fk |-> TRUE, txn |-> FALSE]]
  /\ pending = NoPending
  /\ run = NoRun
  /\ last = NoEntry
  /\ cl \in {InitClient(u) : u \in Callers}
  /\ direct = 0

(* ------------------------- requests to the API ------------------------ *)
KeyConds(t) ==
  {<<>>} \cup {<<Cond(f, "=", v)>> : f \in PrimaryKeys(t), v \in Vals}

UpdateSets ==
  {NoMap, [f \in {"EmpID"} |-> MaxVal], [f \in {"Title"} |-> MaxVal],
   [f \in {"EmpID", "Title"} |-> MaxVal]}

InsertRows ==
  {NoMap} \cup {Customer(MaxVal, v) : v \in Vals} \cup {Employee(MaxVal, v, 1) : v \in Vals}

\* POST /api/query-builder/query, sent by anyone who can reach the server
DirectQuery(caller, c, req) ==
  /\ direct < MaxDirect
  /\ c \in Idle
  /\ LET rep == QueryHandler(c, req)
     IN  /\ last' = Entry("query", "direct", caller, c, req, rep)
         /\ Store(c, rep.data)
  /\ Track
  /\ direct' = direct + 1
  /\ UNCHANGED <<sess, cl>>

DirectSelect(caller, c, t, w) ==
  DirectQuery(caller, c, Request("SELECT", t, w, NoMap, NoMap))

DirectInsert(caller, c, row) ==
  DirectQuery(caller, c,
              Request("INSERT", IF "CustID" \in DOMAIN row THEN "Customer" ELSE "Employee",
                      <<>>, NoMap, row))

DirectUpdate(caller, c, set, w) ==
  DirectQuery(caller, c, Request("UPDATE", "Employee", w, set, NoMap))

DirectDelete(caller, c, t, w) ==
  DirectQuery(caller, c, Request("DELETE", t, w, NoMap, NoMap))

\* POST /api/query-builder/sql: the script starts on a pooled connection
SqlBegin(caller, origin, c, sql, unguarded, change) ==
  /\ run.conn = NoConn
  /\ c \in Conns
  /\ run' = [conn |-> c, stmts |-> sql, log |-> <<>>, caller |-> caller,
             origin |-> origin, base |-> db, unguarded |-> unguarded,
             change |-> change]

DirectSql(caller, c, old, new) ==
  /\ direct < MaxDirect
  /\ SqlBegin(caller, "direct", c,
              cascadeSql("Employee", [f \in {"EmpID"} |-> new],
                         [f \in {"EmpID"} |-> old], <<Cond("EmpID", "=", old)>>),
              FALSE, Change("Employee", "EmpID", old, new))
  /\ direct' = direct + 1
  /\ UNCHANGED <<db, sess, pending, last, cl>>

SqlEntry(status, error, log, changed) ==
  [Entry("sql", run.origin, run.caller, run.conn, NoRequest,
         Reply(status, error, NoBlocker, log, View(run.conn), {}))
     EXCEPT !.operation = "SQL", !.changed = changed, !.change = run.change]

\* the engine runs the next statement of the script; the first error ends
\* the script and the request (multiple statements are enabled, as the
\* handler says).  After a successful script the component reads the updated
\* record back, which changes only the result it displays.
SqlStep ==
  /\ run.conn # NoConn
  /\ LET c    == run.conn
         st   == Head(run.stmts)
         rest == Tail(run.stmts)
         o    == Engine(c, st)
         log  == Append(run.log, st)
         done == o.err # "" \/ rest = <<>>
     IN  /\ sess' = [sess EXCEPT ![c] =
                      IF st.kind = "set_fk" THEN [@ EXCEPT !.fk = (st.set["foreign_key_checks"] = 1)]
                      ELSE IF st.kind = "start" THEN [@ EXCEPT !.txn = TRUE]
                      ELSE IF st.kind = "commit" THEN [@ EXCEPT !.txn = FALSE]
                      ELSE @]
         /\ IF st.kind \in {"start", "commit"}
              THEN /\ db' = View(c)
                   /\ pending' = IF pending.conn = c THEN NoPending ELSE pending
            ELSE IF st.kind \in WriteKinds /\ o.err = ""
              THEN Store(c, o.data)
            ELSE UNCHANGED <<db, pending>>
         /\ run' = IF done THEN NoRun ELSE [run EXCEPT !.stmts = rest, !.log = log]
         /\ last' = IF done
                      THEN SqlEntry(IF o.err = "" THEN 200 ELSE 500, o.err, log, db' # run.base)
                      ELSE last
         /\ cl' = IF done /\ run.origin = "client"
                    THEN IF o.err = ""
                           THEN [cl EXCEPT !.loading = FALSE, !.success = MsgSuccess]
                           ELSE [cl EXCEPT !.loading = FALSE, !.error = ErrCascade]
                    ELSE cl
  /\ UNCHANGED direct

(* ----------------------- actions of the component --------------------- *)
\* the tables the user of the component works on
ClientTables == {"Employee"}
\* the fields the user types new values for
EditFields == {"EmpID", "Title"}

\* the user acts on the form when no request of the component is in flight,
\* and leaves after the last run
Ready == ~ cl.loading /\ cl.runs < MaxRuns

\* operation buttons: the table selection is cleared, and the form is reset
\* when the operation changes
ClSetOperation(op) ==
  /\ Ready
  /\ canModifyData(cl.user) \/ op = "SELECT"
  /\ cl' = IF op = cl.operation
             THEN [cl EXCEPT !.table = "", !.deleteCount = NoCount]
             ELSE [cl EXCEPT !.operation = op, !.table = "", !.conditions = <<>>,
                             !.updateValues = NoMap, !.originalValues = NoMap,
                             !.selectedFields = {}, !.deleteCount = NoCount]
  /\ UNCHANGED <<db, sess, pending, run, last, direct>>

ClSelectTable(t) ==
  /\ Ready
  /\ cl.operation # "DELETE"
  /\ t \in getAvailableTables(cl.user, cl.operation)
  /\ t \in ClientTables
  /\ t # cl.table
  /\ cl' = [cl EXCEPT !.table = t, !.conditions = <<>>,
                      !.updateValues = NoMap, !.originalValues = NoMap,
                      !.selectedFields = {}]
  /\ UNCHANGED <<db, sess, pending, run, last, direct>>

\* the effect that previews a DELETE: one POST /count for the conditions;
\* `fail` is a request that does not come back with a count
fetchCount(c, fail, table, conditions) ==
  LET valid == SelectSeq(conditions,
                         LAMBDA x : x.field # "" /\ x.operator # "" /\ x.value # Undef)
      rep   == CountHandler(c, table, valid)
      ok    == ~ fail /\ rep.status = 200
  IN  [sent        |-> table # "" /\ Len(valid) > 0,
       rep         |-> rep,
       req         |-> Request("COUNT", table, valid, NoMap, NoMap),
       deleteCount |-> IF table # "" /\ Len(valid) > 0 /\ ok
                         THEN Cardinality(rep.rows) ELSE NoCount,
       success     |-> IF table # "" /\ Len(valid) > 0 /\ ok THEN MsgDeleted ELSE cl.success]

\* a table is selected for DELETE: the preview effect runs with the
\* conditions of the render in which the table changed, the form is reset
\* and the count arrives afterwards
ClSelectDeleteTable(t, c, fail) ==
  /\ Ready
  /\ cl.operation = "DELETE"
  /\ t \in getAvailableTables(cl.user, cl.operation)
  /\ t \in ClientTables
  /\ t # cl.table
  /\ LET f == fetchCount(c, fail, t, cl.conditions)
     IN  /\ IF f.sent THEN c \in Idle ELSE c = 1 /\ ~ fail
         /\ cl' = [cl EXCEPT !.table = t, !.conditions = <<>>,
                             !.updateValues = NoMap, !.originalValues = NoMap,
                             !.selectedFields = {},
                             !.deleteCount = f.deleteCount, !.success = f.success]
         /\ last' = IF f.sent THEN Entry("count", "client", cl.user, c, f.req, f.rep) ELSE last
  /\ UNCHANGED <<db, sess, pending, run, direct>>

\* a field's checkbox of a SELECT or DELETE form (a blank name is ignored)
ClToggleField(field, checked) ==
  /\ Ready
  /\ cl.operation \in {"SELECT", "DELETE"}
  /\ cl.table # ""
  /\ field \in Columns(cl.table) \cup {""}
  /\ checked <=> field \notin cl.selectedFields
  /\ cl' = IF field = "" THEN cl
           ELSE [cl EXCEPT !.selectedFields =
                             IF checked THEN @ \cup {field} ELSE @ \ {field}]
  /\ UNCHANGED <<db, sess, pending, run, last, direct>>

\* the conditions of a DELETE are edited, and the preview effect counts the
\* rows they match
ClSetDeleteConditions(w, c, fail) ==
  /\ Ready
  /\ cl.operation = "DELETE"
  /\ cl.table # ""
  /\ w \in KeyConds(cl.table)
  /\ w # cl.conditions
  /\ LET f == fetchCount(c, fail, cl.table, w)
     IN  /\ IF f.sent THEN c \in Idle ELSE c = 1 /\ ~ fail
         /\ cl' = [cl EXCEPT !.conditions = w, !.deleteCount = f.deleteCount,
                             !.success = f.success]
         /\ last' = IF f.sent THEN Entry("count", "client", cl.user, c, f.req, f.rep) ELSE last
  /\ UNCHANGED <<db, sess, pending, run, direct>>

\* the WHERE conditions are edited; for UPDATE the preview is forgotten
ClSetConditions(w) ==
  /\ Ready
  /\ cl.operation # "DELETE"
  /\ cl.table # ""
  /\ w \in KeyConds(cl.table)
  /\ w # cl.conditions
  /\ cl' = [cl EXCEPT !.conditions = w,
                      !.originalValues = IF cl.operation = "UPDATE" THEN NoMap ELSE @]
  /\ UNCHANGED <<db, sess, pending, run, last, direct>>

\* "Fetch record": the first matching row becomes the original values and
\* pre-populates the update values
ClFetchRecordPreview(c) ==
  /\ Ready
  /\ cl.table # "" /\ Len(cl.conditions) > 0 /\ cl.operation = "UPDATE"
  /\ c \in Idle
  /\ LET req == Request("SELECT", cl.table, cl.conditions, NoMap, NoMap)
         rep == QueryHandler(c, req)
     IN  /\ last' = Entry("query", "client", cl.user, c, req, rep)
         /\ IF rep.status = 200 /\ rep.rows # {}
              THEN \E r \in rep.rows :
                     cl' = [cl EXCEPT !.originalValues = r, !.updateValues = r,
                                      !.affected = <<>>, !.warning = FALSE,
                                      !.countFailed = FALSE]
            ELSE cl' = [cl EXCEPT !.error = IF rep.status = 200 THEN ErrNoRecords ELSE rep.error]
  /\ UNCHANGED <<db, sess, pending, run, direct>>

\* countAffectedReferences: one POST /count; `fail` is a request that does
\* not come back with a count
countAffectedReferences(c, fail, tableName, column, value) ==
  LET rep == CountHandler(c, tableName, <<Cond(column, "=", value)>>)
  IN  [rep    |-> rep,
       failed |-> fail \/ rep.status # 200,
       count  |-> IF fail \/ rep.status # 200 THEN 0 ELSE Cardinality(rep.rows)]

\* a new value is typed for field f; the effect on updateValues then runs
\* checkAffectedReferences
ClEdit(f, v, c, fail) ==
  /\ Ready
  /\ cl.operation = "UPDATE" /\ cl.table # ""
  /\ f \in Columns(cl.table) \cap EditFields
  /\ LET uv   == Merge(cl.updateValues, [x \in {f} |-> v])
         pks  == updatedPKs(cl.table, uv, cl.originalValues)
         refs == referencingTables(cl.table, PrimaryKeys(cl.table) \cap DOMAIN uv)
         cnt  == [i \in 1..Len(refs) |->
                    countAffectedReferences(c, fail, refs[i].tableName, refs[i].fromColumn,
                                            Get(cl.originalValues, refs[i].toColumn))]
         hit  == SelectSeq([i \in 1..Len(refs) |->
                              [tableName |-> refs[i].tableName, column |-> refs[i].fromColumn,
                               count |-> cnt[i].count]],
                           LAMBDA a : a.count > 0)
     IN  IF DOMAIN pks = {} \/ Len(refs) = 0
           THEN /\ ~ fail /\ c = 1
                /\ cl' = [cl EXCEPT !.updateValues = uv, !.affected = <<>>,
                                    !.warning = FALSE, !.countFailed = FALSE]
                /\ UNCHANGED last
           ELSE /\ c \in Idle
                /\ cl' = [cl EXCEPT !.updateValues = uv, !.affected = hit,
                                    !.warning = Len(hit) > 0,
                                    !.countFailed = \E i \in DOMAIN cnt : cnt[i].failed]
                /\ last' = Entry("count", "client", cl.user, c,
                                 Request("COUNT", refs[Len(refs)].tableName,
                                         <<Cond(refs[Len(refs)].fromColumn, "=",
                                                Get(cl.originalValues, refs[Len(refs)].toColumn))>>,
                                         NoMap, NoMap),
                                 cnt[Len(refs)].rep)
  /\ UNCHANGED <<db, sess, pending, run, direct>>

\* a field's checkbox of the UPDATE form: unchecking removes the field's
\* update value, checking fills it from the previewed record; the effect on
\* updateValues then runs checkAffectedReferences unless no value is left
ClToggleUpdateField(field, checked, c, fail) ==
  /\ Ready
  /\ cl.operation = "UPDATE" /\ cl.table # ""
  /\ field \in Columns(cl.table)
  /\ checked <=> field \notin cl.selectedFields
  /\ LET uv   == IF ~ checked THEN Restrict(cl.updateValues, DOMAIN cl.updateValues \ {field})
                 ELSE IF Get(cl.originalValues, field) \notin {Undef, 0}
                   THEN Merge(cl.updateValues, [x \in {field} |-> cl.originalValues[field]])
                 ELSE cl.updateValues
         sel  == IF checked THEN cl.selectedFields \cup {field} ELSE cl.selectedFields \ {field}
         pks  == updatedPKs(cl.table, uv, cl.originalValues)
         refs == referencingTables(cl.table, PrimaryKeys(cl.table) \cap DOMAIN uv)
         cnt  == [i \in 1..Len(refs) |->
                    countAffectedReferences(c, fail, refs[i].tableName, refs[i].fromColumn,
                                            Get(cl.originalValues, refs[i].toColumn))]
         hit  == SelectSeq([i \in 1..Len(refs) |->
                              [tableName |-> refs[i].tableName, column |-> refs[i].fromColumn,
                               count |-> cnt[i].count]],
                           LAMBDA a : a.count > 0)
     IN  IF uv = cl.updateValues \/ DOMAIN uv = {}
           THEN /\ ~ fail /\ c = 1
                /\ cl' = [cl EXCEPT !.updateValues = uv, !.selectedFields = sel]
                /\ UNCHANGED last
         ELSE IF DOMAIN pks = {} \/ Len(refs) = 0
           THEN /\ ~ fail /\ c = 1
                /\ cl' = [cl EXCEPT !.updateValues = uv, !.selectedFields = sel,
                                    !.affected = <<>>, !.warning = FALSE,
                                    !.countFailed = FALSE]
                /\ UNCHANGED last
           ELSE /\ c \in Idle
                /\ cl' = [cl EXCEPT !.updateValues = uv, !.selectedFields = sel,
                                    !.affected = hit, !.warning = Len(hit) > 0,
                                    !.countFailed = \E i \in DOMAIN cnt : cnt[i].failed]
                /\ last' = Entry("count", "client", cl.user, c,
                                 Request("COUNT", refs[Len(refs)].tableName,
                                         <<Cond(refs[Len(refs)].fromColumn, "=",
                                                Get(cl.originalValues, refs[Len(refs)].toColumn))>>,
                                         NoMap, NoMap),
                                 cnt[Len(refs)].rep)
  /\ UNCHANGED <<db, sess, pending, run, direct>>

\* the "Cascade updates to referenced tables" checkbox
ClToggleReferences ==
  /\ Ready
  /\ cl.operation = "UPDATE"
  /\ cl' = [cl EXCEPT !.updateReferences = ~ @]
  /\ UNCHANGED <<db, sess, pending, run, last, direct>>

\* "Run Query"
ClRunQuery(c) ==
  /\ ~ cl.loading
  /\ isFormValid(cl)
  /\ cl.runs < MaxRuns
  /\ LET start == [cl EXCEPT !.error = "", !.success = "", !.runs = @ + 1]
         pks   == updatedPKs(cl.table, cl.updateValues, cl.originalValues)
     IN  \/ /\ noFieldSelected(cl) \/ route(cl) = "refused"
            /\ c = 1
            /\ cl' = [start EXCEPT !.error = IF noFieldSelected(cl) THEN ErrNoFields
                                             ELSE ErrNoCascade]
            /\ UNCHANGED <<db, sess, pending, run, last>>
         \/ /\ ~ noFieldSelected(cl)
            /\ route(cl) = "standard"
            /\ c \in Idle
            /\ LET req == buildQuery(cl)
                   rep == QueryHandler(c, req)
               IN  /\ last' = Entry("query", "client", cl.user, c, req, rep)
                   /\ Store(c, rep.data)
                   /\ cl' = IF rep.status = 200
                              THEN [start EXCEPT
                                      !.success = MsgSuccess,
                                      !.deleteCount =
                                         IF cl.operation = "DELETE" /\ Len(req.conditions) = 0
                                           THEN NoCount ELSE @]
                              ELSE [start EXCEPT !.error = rep.error]
            /\ Track
            /\ UNCHANGED sess
         \/ /\ ~ noFieldSelected(cl)
            /\ route(cl) = "cascade"
            /\ SqlBegin(cl.user, "client", c,
                        cascadeSql(cl.table, pks, cl.originalValues, cl.conditions),
                        cl.countFailed,
                        LET k == CHOOSE f \in DOMAIN pks : TRUE
                        IN  Change(cl.table, k, Get(cl.originalValues, k), pks[k]))
            /\ cl' = [start EXCEPT !.loading = TRUE]
            /\ UNCHANGED <<db, sess, pending, last>>
  /\ UNCHANGED direct

(* ------------------- single requests, one after another --------------- *)
Person(id, lname) == [PersonID |-> id, LName |-> lname]
Department(id, name) == [dept_id |-> id, dept_name |-> name]

\* persons who are neither employees nor customers; the last names read
\* "12", "123" and "45"
ReqData ==
  [t \in Tables \cup MoreTables |->
     CASE t \in Tables   -> InitData[t]
       [] t = "Person"   -> {Person(1, 12), Person(2, 123), Person(3, 45)}
       [] OTHER          -> {Department(1, 1)}]

InitReq ==
  /\ db = ReqData
  /\ sess = [c \in Conns |-> [fk |-> TRUE, txn |-> FALSE]]
  /\ pending = NoPending
  /\ run = NoRun
  /\ last = NoEntry
  /\ cl = InitClient("writer")
  /\ direct = 0

Join(fromTable, fromColumn, toTable, toColumn, joinType) ==
  [fromTable |-> fromTable, fromColumn |-> fromColumn, toTable |-> toTable,
   toColumn |-> toColumn, joinType |-> joinType]

JoinTypes == {"INNER", "LEFT", "RIGHT", "FULL"}

\* one join along the relationship Customer declares, one along no relationship
ReqJoins ==
  {<<Join("Customer", "PreferredRep", "Employee", "EmpID", k)>> : k \in JoinTypes}
    \cup {<<Join("Customer", "CustID", "Employee", "SupervisorID", "INNER")>>}

\* conditions on the last name
NameConds == {<<>>, <<Cond("LName", "LIKE", 12)>>, <<Cond("LName", "=", 12)>>}

\* what the log keeps of a request besides its entry
Record(e, req, rep, before) ==
  Merge(e, [joins |-> joinsOf(req), conditions |-> req.conditions, data |-> toInsert(req),
            rows |-> rep.rows, issued |-> rep.stmts, before |-> before])

\* POST /query, served by the first connection of the pool
ReqQuery(req) ==
  /\ direct < MaxDirect
  /\ LET rep == QueryHandler(1, req)
     IN  /\ last' = Record(Entry("query", "direct", "writer", 1, req, rep), req, rep, db)
         /\ Store(1, rep.data)
  /\ direct' = direct + 1
  /\ UNCHANGED <<sess, run, cl>>

ReqSelect(t, joins, w) ==
  ReqQuery(Merge(Request("SELECT", t, w, NoMap, NoMap), [joins |-> joins]))

ReqInsert(t, data) == ReqQuery(Request("INSERT", t, <<>>, NoMap, data))

\* an INSERT without `data`: the field/value pairs come from the conditions
ReqInsertPairs(t, w) ==
  ReqQuery([f \in {"operation", "table", "conditions", "updates"} |->
              Request("INSERT", t, w, NoMap, NoMap)[f]])

ReqUpdate(t, set, w) == ReqQuery(Request("UPDATE", t, w, set, NoMap))

ReqDelete(t, w) == ReqQuery(Request("DELETE", t, w, NoMap, NoMap))

\* a request without a table, or with an operation the switch does not know
ReqOther(op, t) == ReqQuery(Request(op, t, <<>>, NoMap, NoMap))

\* POST /count and GET /count
ReqCount(method, t, w) ==
  /\ direct < MaxDirect
  /\ LET req == Request("COUNT", t, w, NoMap, NoMap)
         rep == IF method = "POST" THEN CountHandler(1, t, w) ELSE GetCountHandler(1, t, w)
     IN  last' = Merge(Record(Entry("count", "direct", "writer", 1, req, rep), req, rep, db),
                       [method |-> method])
  /\ direct' = direct + 1
  /\ UNCHANGED <<db, sess, pending, run, cl>>

(* ----------------------------- GET /schema ---------------------------- *)
\* A catalog text is a sequence of pieces; the separators the query and the
\* parser use are pieces of their own, every other piece holds neither.
Colon == ":"
Comma == ","

\* SQL NULL and JavaScript's null and undefined, as texts no catalog holds
NullText  == <<"<null>">>
Undefined == <<"<undefined>">>

\* COALESCE(x, '')
Coalesce(x) == IF x = NullText THEN <<>> ELSE x

\* x || null
orNull(x) == IF x = <<>> \/ x = Undefined THEN NullText ELSE x

\* CONCAT(a, ':', b, ':', ...)
RECURSIVE ConcatColon(_)
ConcatColon(parts) ==
  IF Len(parts) = 1 THEN parts[1]
  ELSE parts[1] \o <<Colon>> \o ConcatColon(Tail(parts))

\* GROUP_CONCAT(DISTINCT ...): the texts of the group, separated by commas,
\* NULL for an empty group (the order within the group is the engine's)
RECURSIVE GroupConcatFrom(_)
GroupConcatFrom(S) ==
  LET x == CHOOSE y \in S : TRUE
  IN  IF S \ {x} = {} THEN x ELSE x \o <<Comma>> \o GroupConcatFrom(S \ {x})

GroupConcat(S) == IF S = {} THEN NullText ELSE GroupConcatFrom(S)

\* String.prototype.split
RECURSIVE split(_, _)
split(text, sep) ==
  IF \A i \in DOMAIN text : text[i] # sep THEN <<text>>
  ELSE LET i == CHOOSE k \in DOMAIN text :
                  text[k] = sep /\ \A j \in 1..(k - 1) : text[j] # sep
       IN  <<SubSeq(text, 1, i - 1)>> \o split(SubSeq(text, i + 1, Len(text)), sep)

\* .filter(Boolean)
filterBoolean(pieces) == SelectSeq(pieces, LAMBDA x : x # <<>>)

\* element i of a destructured array
At(pieces, i) == IF i \in DOMAIN pieces THEN pieces[i] ELSE Undefined

\* a row of information_schema.columns
Column(table, name, type, len, nullable, def, extra) ==
  [TABLE_NAME |-> table, COLUMN_NAME |-> name, DATA_TYPE |-> type,
   CHARACTER_MAXIMUM_LENGTH |-> len, IS_NULLABLE |-> nullable,
   COLUMN_DEFAULT |-> def, EXTRA |-> extra]

\* a row of information_schema.key_column_usage
KeyColumn(table, constraint, column, refTable, refColumn) ==
  [TABLE_NAME |-> table, CONSTRAINT_NAME |-> constraint, COLUMN_NAME |-> column,
   REFERENCED_TABLE_NAME |-> refTable, REFERENCED_COLUMN_NAME |-> refColumn]

CatalogTables == {"Person", "Employee", "Customer"}

\* the catalog of the tables Person, Employee and Customer as the DDL
\* declares them
DdlCatalog ==
  [tables  |-> {<<t>> : t \in CatalogTables},
   columns |->
     {Column(<<t>>, <<c>>,
             IF c \in {"LName", "Title"} THEN <<"varchar">> ELSE <<"int">>,
             CASE c = "LName" -> <<"40">> [] c = "Title" -> <<"50">> [] OTHER -> NullText,
             IF c = "Title" THEN <<"YES">> ELSE <<"NO">>,
             NullText, <<>>) : <<t, c>> \in {x \in CatalogTables \X
                                              {"PersonID", "LName", "EmpID", "SupervisorID",
                                               "Title", "CustID", "PreferredRep"} :
                                                x[2] \in Columns(x[1])}},
   keys    |->
     {KeyColumn(<<x[1]>>, <<"PRIMARY">>, <<x[2]>>, NullText, NullText) :
         x \in {y \in CatalogTables \X {"PersonID", "EmpID", "CustID"} :
                  y[2] \in PrimaryKeys(y[1])}}
     \cup {KeyColumn(<<k.owner>>, <<k.owner \o "_ibfk_" \o k.fromColumn>>, <<k.fromColumn>>,
                     <<k.table>>, <<k.toColumn>>) : k \in ForeignKeys}
     \cup {KeyColumn(<<"Employee">>, <<"Employee_ibfk_EmpID">>, <<"EmpID">>,
                     <<"Person">>, <<"PersonID">>),
           KeyColumn(<<"Customer">>, <<"Customer_ibfk_CustID">>, <<"CustID">>,
                     <<"Person">>, <<"PersonID">>)}]

\* the first query: one row per base table
tablesQuery(catalog) ==
  { [table_name     |-> t,
     column_details |->
       GroupConcat({ConcatColon(<<c.COLUMN_NAME, c.DATA_TYPE,
                                  Coalesce(c.CHARACTER_MAXIMUM_LENGTH), c.IS_NULLABLE,
                                  Coalesce(c.COLUMN_DEFAULT), Coalesce(c.EXTRA)>>) :
                      c \in {x \in catalog.columns : x.TABLE_NAME = t}}),
     foreign_keys   |->
       GroupConcat({ConcatColon(<<k.REFERENCED_TABLE_NAME, k.COLUMN_NAME,
                                  k.REFERENCED_COLUMN_NAME>>) :
                      k \in {x \in catalog.keys :
                               x.TABLE_NAME = t /\ x.REFERENCED_TABLE_NAME # NullText}})] :
      t \in catalog.tables }

\* the second query: one row per table that has a primary key
pkRows(catalog) ==
  { [TABLE_NAME   |-> t,
     primary_keys |-> GroupConcat({k.COLUMN_NAME :
                                     k \in {x \in catalog.keys :
                                              x.TABLE_NAME = t /\ x.CONSTRAINT_NAME = <<"PRIMARY">>}})] :
      t \in {k.TABLE_NAME : k \in {x \in catalog.keys : x.CONSTRAINT_NAME = <<"PRIMARY">>}} }

\* pkMap[table] || []
pkMap(catalog, t) ==
  IF \E r \in pkRows(catalog) : r.TABLE_NAME = t
    THEN split((CHOOSE r \in pkRows(catalog) : r.TABLE_NAME = t).primary_keys, Comma)
    ELSE <<>>

ColumnInfo(col) ==
  LET parts == split(col, Colon)
  IN  [name         |-> At(parts, 1),
       type         |-> At(parts, 2),
       length       |-> orNull(At(parts, 3)),
       nullable     |-> At(parts, 4) = <<"YES">>,
       defaultValue |-> orNull(At(parts, 5)),
       extra        |-> At(parts, 6)]

Relationship(fk) ==
  LET parts == split(fk, Colon)
  IN  [table |-> At(parts, 1), fromColumn |-> At(parts, 2), toColumn |-> At(parts, 3)]

\* t.column_details || '' (and the same for the foreign keys)
orEmpty(x) == IF x = NullText THEN <<>> ELSE x

TableSchema(catalog, t) ==
  LET pieces(x) == filterBoolean(split(orEmpty(x), Comma))
      cols == [i \in DOMAIN pieces(t.column_details) |-> ColumnInfo(pieces(t.column_details)[i])]
      fks  == [i \in DOMAIN pieces(t.foreign_keys) |-> Relationship(pieces(t.foreign_keys)[i])]
      dependsOn == {fks[i].table : i \in DOMAIN fks}
  IN  [name               |-> t.table_name,
       columns            |-> cols,
       primaryKeys        |-> pkMap(catalog, t.table_name),
       relationships      |-> fks,
       dependsOn          |-> dependsOn,
       isIndependentTable |-> dependsOn = {},
       supportsInsert     |-> TRUE]

ErrSchema == "Failed to fetch database schema"

\* the handler; `fail` is a catalog the engine cannot read
SchemaHandler(catalog, fail) ==
  IF fail THEN [status |-> 500, error |-> ErrSchema, schema |-> {}]
  ELSE [status |-> 200, error |-> "",
        schema |-> {TableSchema(catalog, t) : t \in tablesQuery(catalog)}]

InitSchema ==
  /\ db = DdlCatalog
  /\ sess = [c \in Conns |-> [fk |-> TRUE, txn |-> FALSE]]
  /\ pending = NoPending
  /\ run = NoRun
  /\ last = [endpoint |-> "none", status |-> 0, error |-> "", schema |-> {}]
  /\ cl = InitClient("writer")
  /\ direct = 0

GetSchema(fail) ==
  /\ direct < MaxDirect
  /\ last' = Merge(SchemaHandler(db, fail), [endpoint |-> "schema"])
  /\ direct' = direct + 1
  /\ UNCHANGED <<db, sess, pending, run, cl>>

\* POST /sql with one data-definition statement, which the engine applies to
\* the catalog at once
DdlSql(catalog) ==
  /\ direct < MaxDirect
  /\ db' = catalog
  /\ last' = [endpoint |-> "sql", status |-> IF catalog = db THEN 500 ELSE 200,
              error |-> IF catalog = db THEN "ER_DUP_FIELDNAME" ELSE "", schema |-> {}]
  /\ direct' = direct + 1
  /\ UNCHANGED <<sess, pending, run, cl>>

\* ALTER TABLE t ADD COLUMN name type DEFAULT def; a column of that name
\* makes the statement fail
AddColumn(t, name, type, def) ==
  DdlSql(IF \E c \in db.columns : c.TABLE_NAME = t /\ c.COLUMN_NAME = name
           THEN db
           ELSE [db EXCEPT !.columns = @ \cup {Column(t, name, type, NullText, <<"YES">>, def, <<>>)}])

\* CREATE TABLE t (id INT [PRIMARY KEY])
CreateTable(t, withKey) ==
  DdlSql(IF t \in db.tables
           THEN db
           ELSE [db EXCEPT !.tables = @ \cup {t},
                           !.columns = @ \cup {Column(t, <<"id">>, <<"int">>, NullText, <<"NO">>,
                                                NullText, <<>>)},
                           !.keys = @ \cup (IF withKey
                                              THEN {KeyColumn(t, <<"PRIMARY">>, <<"id">>,
                                                              NullText, NullText)}
                                              ELSE {})])

\* the columns a caller adds: a flag, an opening time, a set of tags
NewColumns ==
  { <<<<"Flag">>, <<"int">>, <<"0">>>>,
    <<<<"Opens">>, <<"time">>, <<"08", Colon, "00">>>>,
    <<<<"Tags">>, <<"set">>, <<"a", Comma, "b">>>> }

(* ------------------- POST /reset and the initial backups -------------- *)
\* In this part db holds the tables users, permissions and user_permissions,
\* cl the variables of the routes module (the three backup arrays, kept as
\* sets of rows), run the position of initializeBackups and of the reset
\* request in flight, and pending the rows of the reset's open transaction.
User(id) == [id |-> id, username |-> id]
UserPermission(id, user, permission) == [id |-> id, user_id |-> user, permission_id |-> permission]

\* the rows stored when the server starts
InitUsers == {User(1), User(2)}
InitPermissions == {[id |-> 1], [id |-> 2]}
InitUserPermissions == {UserPermission(1, 1, 1), UserPermission(2, 2, 2)}

MsgReset == "Database reset successful"
ErrReset == "ER_LOCK_DEADLOCK"

NoBackups == [userBackups |-> {}, permissionBackups |-> {}, userPermissionBackups |-> {}]

ResetReply(endpoint, status, message) == [endpoint |-> endpoint, status |-> status, message |-> message]

InitReset ==
  /\ db = [users |-> InitUsers, permissions |-> InitPermissions,
           user_permissions |-> InitUserPermissions]
  /\ sess = [c \in Conns |-> [fk |-> TRUE, txn |-> FALSE]]
  /\ pending = [conn |-> NoConn, data |-> NoMap]
  /\ run = [backup |-> "users", reset |-> "off", conn |-> NoConn]
  /\ last = ResetReply("none", 0, "")
  /\ cl = NoBackups
  /\ direct = 0

\* one await of initializeBackups: the table is read into its backup array;
\* a read that throws ends the function in its catch, which only logs
initializeBackups(fail) ==
  /\ run.backup \in {"users", "permissions", "user_permissions"}
  /\ IF fail
       THEN /\ run' = [run EXCEPT !.backup = "failed"]
            /\ UNCHANGED cl
     ELSE IF run.backup = "users"
       THEN /\ cl' = [cl EXCEPT !.userBackups = db.users]
            /\ run' = [run EXCEPT !.backup = "permissions"]
     ELSE IF run.backup = "permissions"
       THEN /\ cl' = [cl EXCEPT !.permissionBackups = db.permissions]
            /\ run' = [run EXCEPT !.backup = "user_permissions"]
     ELSE /\ cl' = [cl EXCEPT !.userPermissionBackups = db.user_permissions]
          /\ run' = [run EXCEPT !.backup = "done"]
  /\ UNCHANGED <<db, sess, pending, last, direct>>

\* insert(...).onConflict('id').merge(): a stored row of the same id is replaced
insertMerge(rows, backups) ==
  {r \in rows : \A b \in backups : b.id # r.id} \cup backups

\* insert(...).onConflict(['user_id', 'permission_id']).ignore()
insertIgnore(rows, backups) ==
  rows \cup {b \in backups : \A r \in rows :
               r.user_id # b.user_id \/ r.permission_id # b.permission_id}

\* POST /reset arrives: the transaction opens on a pooled connection and
\* SET FOREIGN_KEY_CHECKS = 0 runs
ResetBegin(c) ==
  /\ direct < MaxDirect
  /\ run.reset = "off"
  /\ c \in Conns
  /\ run' = [run EXCEPT !.reset = "delete", !.conn = c]
  /\ sess' = [sess EXCEPT ![c] = [fk |-> FALSE, txn |-> TRUE]]
  /\ pending' = [conn |-> c, data |-> db]
  /\ direct' = direct + 1
  /\ UNCHANGED <<db, last, cl>>

\* the rest of the handler, from one await to the next; a statement that
\* throws rolls the transaction back and the request is answered 500
ResetStep(fail) ==
  /\ run.reset # "off"
  /\ LET c == run.conn
     IN  IF fail
           THEN /\ pending' = [conn |-> NoConn, data |-> NoMap]
                /\ sess' = [sess EXCEPT ![c].txn = FALSE]
                /\ run' = [run EXCEPT !.reset = "off", !.conn = NoConn]
                /\ last' = ResetReply("reset", 500, ErrReset)
                /\ UNCHANGED db
         ELSE IF run.reset = "delete"
           THEN /\ pending' = [pending EXCEPT !.data.user_permissions = {}, !.data.users = {}]
                /\ run' = [run EXCEPT !.reset = "users"]
                /\ UNCHANGED <<db, sess, last>>
         ELSE IF run.reset = "users"
           THEN /\ pending' = IF Cardinality(cl.userBackups) > 0
                                THEN [pending EXCEPT !.data.users = insertMerge(@, cl.userBackups)]
                                ELSE pending
                /\ run' = [run EXCEPT !.reset = "user_permissions"]
                /\ UNCHANGED <<db, sess, last>>
         ELSE IF run.reset = "user_permissions"
           THEN /\ pending' = IF Cardinality(cl.userPermissionBackups) > 0
                                THEN [pending EXCEPT !.data.user_permissions =
                                                        insertIgnore(@, cl.userPermissionBackups)]
                                ELSE pending
                /\ run' = [run EXCEPT !.reset = "commit"]
                /\ UNCHANGED <<db, sess, last>>
         ELSE /\ db' = pending.data
              /\ pending' = [conn |-> NoConn, data |-> NoMap]
              /\ sess' = [sess EXCEPT ![c] = [fk |-> TRUE, txn |-> FALSE]]
              /\ run' = [run EXCEPT !.reset = "off", !.conn = NoConn]
              /\ last' = ResetReply("reset", 200, MsgReset)
  /\ UNCHANGED <<cl, direct>>

\* DELETE /api/users/:id by an administrator (it waits for a reset in flight,
\* which holds the rows locked)
DeleteUser(id) ==
  /\ direct < MaxDirect
  /\ run.reset = "off"
  /\ db' = [db EXCEPT !.user_permissions = {r \in @ : r.user_id # id},
                      !.users = {r \in @ : r.id # id}]
  /\ last' = ResetReply("users", 200, "User deleted successfully")
  /\ direct' = direct + 1
  /\ UNCHANGED <<sess, pending, run, cl>>

(* -------------------------------- Next -------------------------------- *)
\* requests sent straight to the API
NextApi ==
  \/ \E u \in Callers, c \in Conns, t \in Tables : \E w \in KeyConds(t) : DirectSelect(u, c, t, w)
  \/ \E u \in Callers, c \in Conns, row \in InsertRows : DirectInsert(u, c, row)
  \/ \E u \in Callers, c \in Conns, set \in UpdateSets, w \in KeyConds("Employee") :
        DirectUpdate(u, c, set, w)
  \/ \E u \in Callers, c \in Conns, t \in Tables : \E w \in KeyConds(t) : DirectDelete(u, c, t, w)
  \/ \E u \in Callers, c \in Conns, old \in Vals, new \in Vals : DirectSql(u, c, old, new)
  \/ SqlStep

\* the user of the CustomQuery component
NextClient ==
  \/ \E op \in {"SELECT", "UPDATE"} : ClSetOperation(op)
  \/ \E t \in Tables : ClSelectTable(t)
  \/ \E t \in Tables : \E w \in KeyConds(t) : ClSetConditions(w)
  \/ \E c \in Conns : ClFetchRecordPreview(c)
  \/ \E f \in EditFields, v \in Vals, c \in Conns, fail \in BOOLEAN :
        ClEdit(f, v, c, fail)
  \/ ClToggleReferences
  \/ \E c \in Conns : ClRunQuery(c)
  \/ SqlStep

\* requests of every kind, one at a time
NextReq ==
  \/ \E w \in NameConds : ReqSelect("Person", <<>>, w)
  \/ \E j \in ReqJoins : ReqSelect("Customer", j, <<>>)
  \/ \E d \in {NoMap, Department(3, 2), [dept_name |-> 2], Department(1, 2), [dept_id |-> 3]} :
        ReqInsert("departments", d)
  \/ \E w \in {<<>>, <<Cond("dept_name", "=", 2)>>} : ReqInsertPairs("departments", w)
  \/ \E set \in {NoMap, [PersonID |-> 4], [LName |-> 7], [PersonID |-> 4, LName |-> 7]},
        w \in NameConds : ReqUpdate("Person", set, w)
  \/ \E w \in NameConds : ReqDelete("Person", w)
  \/ \E w \in KeyConds("Employee") : ReqDelete("Employee", w)
  \/ \E r \in {<<"SELECT", "">>, <<"MERGE", "Person">>} : ReqOther(r[1], r[2])
  \/ \E m \in {"POST", "GET"}, w \in NameConds : ReqCount(m, "Person", w)

\* the user of the component's SELECT and DELETE forms
NextForm ==
  \/ \E op \in {"SELECT", "DELETE"} : ClSetOperation(op)
  \/ \E t \in Tables : ClSelectTable(t)
  \/ \E t \in Tables, c \in Conns, fail \in BOOLEAN : ClSelectDeleteTable(t, c, fail)
  \/ \E field \in {"", "EmpID", "Title"}, checked \in BOOLEAN : ClToggleField(field, checked)
  \/ \E t \in Tables : \E w \in KeyConds(t) : ClSetConditions(w)
  \/ \E t \in Tables : \E w \in KeyConds(t), c \in Conns, fail \in BOOLEAN :
        ClSetDeleteConditions(w, c, fail)
  \/ \E c \in Conns : ClRunQuery(c)

\* the user of the UPDATE form who types nothing: every update value is one
\* a preview loaded
NextPreview ==
  \/ ClSetOperation("UPDATE")
  \/ \E t \in Tables : ClSelectTable(t)
  \/ \E t \in Tables : \E w \in KeyConds(t) : ClSetConditions(w)
  \/ \E c \in Conns : ClFetchRecordPreview(c)
  \/ \E field \in {"EmpID", "SupervisorID", "Title"}, checked \in BOOLEAN, c \in Conns,
        fail \in BOOLEAN : ClToggleUpdateField(field, checked, c, fail)
  \/ ClToggleReferences
  \/ \E c \in Conns : ClRunQuery(c)
  \/ SqlStep

\* the server from its start: the backups are read while requests arrive
NextReset ==
  \/ \E fail \in BOOLEAN : initializeBackups(fail)
  \/ \E c \in Conns : ResetBegin(c)
  \/ \E fail \in BOOLEAN : ResetStep(fail)
  \/ \E id \in Vals : DeleteUser(id)

\* the schema endpoint, and the statements that change the catalog
NextSchema ==
  \/ \E fail \in BOOLEAN : GetSchema(fail)
  \/ \E t \in CatalogTables, col \in NewColumns : AddColumn(<<t>>, col[1], col[2], col[3])
  \/ \E withKey \in BOOLEAN : CreateTable(<<"Audit">>, withKey)

Next == NextApi \/ NextClient

Spec == Init /\ [][Next]_vars

SpecApi == Init /\ [][NextApi]_vars

SpecClient == Init /\ [][NextClient]_vars

SpecReq == InitReq /\ [][NextReq]_vars

SpecForm == Init /\ [][NextForm]_vars

SpecSchema == InitSchema /\ [][NextSchema]_vars

SpecPreview == Init /\ [][NextPreview]_vars

SpecReset == InitReset /\ [][NextReset]_vars

(* ------------------------------ properties ---------------------------- *)
IsUpdate(st) == st.kind = "update"
IsWrite(st) == st.kind \in WriteKinds
Issued(P(_)) == \E i \in DOMAIN last.stmts : P(last.stmts[i])

canWrite(u) == hasPermission(u, "write_query") \/ hasPermission(u, "admin")

MissingConditionsRejected ==
  (last.endpoint = "query" /\ last.operation \in {"UPDATE", "DELETE"} /\ last.noConds) =>
    (last.error \in {ErrUpdateNoWhere, ErrDeleteNoWhere} /\ last.stmts = <<>>)

\* C3: when a statement of a cascade script fails, no session of the pool
\* sees any row differ from the rows before the cascade began, and the
\* committed rows are those the cascade started from.
CascadeAllOrNothing ==
  (last.endpoint = "sql" /\ last.status = 500) =>
    (~ last.changed /\ \A c \in Conns : View(c) = db)

\* C4: after the component's cascade changed Employee.EmpID from old to new,
\* no Employee row is left whose SupervisorID is the old value.
SelfReferenceRewritten ==
  (last.endpoint = "sql" /\ last.status = 200 /\ last.change.table = "Employee"
     /\ last.change.old # last.change.new) =>
    \A r \in db["Employee"] : r["SupervisorID"] # last.change.old

WritesNeedCapability ==
  (last.endpoint \in {"query", "sql"} /\ Issued(IsWrite)) => canWrite(last.caller)

\* C7: no statement issued by the query-builder paths carries a
\* caller-supplied value inside its SQL text.
NoValueInSqlText ==
  /\ \A i \in DOMAIN last.stmts : last.stmts[i].text = {}
  /\ \A i \in DOMAIN run.log : run.log[i].text = {}

\* C8: a DELETE with conditions whose matched rows are still referenced by
\* other rows is answered 409 with the blocking table and column, and
\* deletes nothing.
ReferencedDeleteConflicts ==
  (last.endpoint = "query" /\ last.operation = "DELETE" /\ ~ last.noConds /\ last.referenced) =>
    (last.status = 409 /\ last.blocker # NoBlocker /\ ~ last.changed)

\* rows of the statement's table that the statement changes, seen from `base`
Effective(st, base) == {r \in Rows(base, st.table, st.where) : Merge(r, st.set) # r}

Applied(st, base, data) ==
  /\ Effective(st, base) # {}
  /\ \A r \in Effective(st, base) : r \notin data[st.table] /\ Merge(r, st.set) \in data[st.table]

Untouched(st, base, data) ==
  /\ Effective(st, base) # {}
  /\ \A r \in Effective(st, base) : r \in data[st.table]

\* some but not all of the script's updates show in `data`
Partial(sql, base, data) ==
  \E i, j \in DOMAIN sql :
    /\ sql[i].kind = "update" /\ sql[j].kind = "update"
    /\ Applied(sql[i], base, data)
    /\ Untouched(sql[j], base, data)

\* C9: while a cascade script is running, the rows any other session of the
\* pool would serve to a concurrent request are not partially cascaded.
NoPartialCascadeObserved ==
  run.conn # NoConn =>
    \A c \in Idle : ~ Partial(run.log \o run.stmts, run.base, View(c))

\* C10: the component sends no cascade script when the count of referencing
\* rows could not be computed for the key change.
NoCascadeAfterFailedCount == ~ (run.origin = "client" /\ run.unguarded)

\* the tuples the claim asks of the guard: one for each foreign key of
\* another table onto a changed key column of t, counted over `data`
Impacts(data, t, changed, originals) ==
  { [tableName |-> k.owner, column |-> k.fromColumn,
     count |-> Cardinality({r \in data[k.owner] : r[k.fromColumn] = Get(originals, k.toColumn)})] :
      k \in {x \in ForeignKeys :
               /\ x.owner # t /\ x.table = t /\ x.toColumn \in changed
               /\ \E r \in data[x.owner] : r[x.fromColumn] = Get(originals, x.toColumn)} }

\* C11: whenever the update values are edited, the list of affected
\* references the guard leaves behind holds exactly one tuple per foreign
\* key of another table onto a changed primary-key column, with the number
\* of referencing rows that carry the old key value, and only those with a
\* positive count.
GuardCountsReferences ==
  [][ (\E f \in EditFields, v \in Vals, c \in Conns, fail \in BOOLEAN : ClEdit(f, v, c, fail))
      => {cl'.affected[i] : i \in DOMAIN cl'.affected}
           = Impacts(db, cl'.table,
                     DOMAIN updatedPKs(cl'.table, cl'.updateValues, cl'.originalValues),
                     cl'.originalValues) ]_vars

\* the count the guard's list holds for a referencing column (0 when absent)
GuardCount(affected, t, col) ==
  LET hit == {i \in DOMAIN affected : affected[i].tableName = t /\ affected[i].column = col}
  IN  IF hit = {} THEN 0 ELSE affected[CHOOSE i \in hit : TRUE].count

\* C12: in a cascade sent by the component, every update of a referencing
\* table comes after START TRANSACTION and before the update of the primary
\* table, which comes before COMMIT; the referencing rows the script
\* rewrites are those of the guard's list: one update per tuple of the list,
\* and each update rewrites as many rows as the list counts for it.
CascadeFollowsGuard ==
  run.origin = "client" =>
    LET sql     == run.log \o run.stmts
        at(k)   == {i \in DOMAIN sql : sql[i].kind = k}
        primary == {i \in at("update") :
                      sql[i].table = cl.table /\ DOMAIN sql[i].set \subseteq PrimaryKeys(cl.table)}
        refs    == at("update") \ primary
    IN  /\ \A i \in refs : \A j \in primary : i < j
        /\ \A i \in at("update") :
             (\E b \in at("start") : b < i) /\ (\E e \in at("commit") : i < e)
        /\ \A i \in refs : \A col \in DOMAIN sql[i].set :
             Cardinality(Effective(sql[i], run.base)) = GuardCount(cl.affected, sql[i].table, col)
        /\ \A a \in DOMAIN cl.affected :
             \E i \in refs : sql[i].table = cl.affected[a].tableName
                             /\ cl.affected[a].column \in DOMAIN sql[i].set

IsQuery(op) == last.endpoint = "query" /\ last.operation = op

\* C13: an INSERT that supplies a value for an auto-generated column
\* succeeds, its INSERT statement does not set that column, and the row it
\* stores carries the key the engine generates.
SuppliedKeyIgnored ==
  (IsQuery("INSERT") /\ DOMAIN last.data \cap AutoColumns(last.table) # {}) =>
    /\ last.status = 200
    /\ \A i \in DOMAIN last.stmts :
         last.stmts[i].kind = "insert" => last.stmts[i].cols \cap AutoColumns(last.table) = {}
    /\ \A r \in db[last.table] \ last.before[last.table] :
         \A c \in AutoColumns(last.table) : r[c] = Generated(last.before, last.table, c)

\* the text of a contains the text of v
Contains(a, v) ==
  \E i \in 1..Len(Chars(a)), j \in 1..Len(Chars(a)) : SubSeq(Chars(a), i, j) = Chars(v)

\* the rows a served request selected: returned, counted, changed or deleted
Selected ==
  IF last.endpoint = "count" \/ last.operation = "SELECT"
    THEN last.rows
    ELSE last.before[last.table] \ db[last.table]

HasLike == \E i \in DOMAIN last.conditions : last.conditions[i].operator = "LIKE"

\* C14: a served SELECT, UPDATE, DELETE or count whose condition is
\* {field, LIKE, v} selects exactly the rows whose field contains v, and the
\* value bound for it in the statement is v between two wildcards.
LikeSelectsSubstrings ==
  (last.endpoint \in {"query", "count"} /\ last.status = 200 /\ HasLike) =>
    /\ Selected = {r \in last.before[last.table] :
                     \A i \in DOMAIN last.conditions :
                       Contains(r[last.conditions[i].field], last.conditions[i].value)}
    /\ \A k \in DOMAIN last.issued : \A i \in DOMAIN last.issued[k].where :
         last.issued[k].where[i].value
           = Concat(Concat(Percent, last.conditions[i].value), Percent)

\* C15: a count request without conditions is refused, by POST /count and by
\* GET /count alike, and no count statement is issued for it.
CountNeedsConditions ==
  (last.endpoint = "count" /\ last.noConds) => (last.status # 200 /\ last.stmts = <<>>)

ClientInputErrors ==
  {ErrNoTable, ErrUnsupported, ErrInvalidJoin, ErrNoInsert, ErrNoUpdate, ErrPkRefused,
   ErrUpdateNoWhere, ErrDeleteNoWhere}

\* what is wrong with the request itself
InputDefect ==
  \/ last.table = ""
  \/ last.operation \notin {"SELECT", "INSERT", "UPDATE", "DELETE"}
  \/ last.operation = "INSERT" /\ DOMAIN last.data = {}
  \/ last.operation = "UPDATE" /\ last.updateCols \ PrimaryKeys(last.table) = {}
  \/ last.operation \in {"UPDATE", "DELETE"} /\ last.noConds

\* C16: a request to POST /query that is rejected for a client-input reason,
\* or that has one of the defects these rejections are for, issues no
\* INSERT, UPDATE or DELETE statement and leaves every table as it was.
RejectedRequestsWriteNothing ==
  (last.endpoint = "query" /\ (last.error \in ClientInputErrors \/ InputDefect)) =>
    (db = last.before /\ ~ Issued(IsWrite))

\* a DELETE without conditions was rejected while the table had rows to lose
DeleteAllRejected ==
  /\ IsQuery("DELETE") /\ last.noConds /\ last.error = ErrDeleteNoWhere
  /\ db[last.table] # {} /\ db = last.before

\* C17: every client-input rejection of POST /query carries a 4xx status.
ClientErrorsAre4xx ==
  (last.endpoint = "query" /\ last.error \in ClientInputErrors) => last.status \in 400..499

\* C18: an UPDATE that names no column at all is rejected with the
\* empty-update error; the primary-key refusal is given exactly when the
\* columns named are all primary-key columns, and there is at least one.
EmptyUpdateDistinguished ==
  (IsQuery("UPDATE") /\ last.table # "") =>
    /\ last.updateCols = {} => last.error = ErrNoUpdate
    /\ last.error = ErrPkRefused <=>
         (last.updateCols # {} /\ last.updateCols \subseteq PrimaryKeys(last.table))

\* the join follows a foreign key the schema declares on its fromTable
Declared(j) ==
  \E k \in ForeignKeys :
    /\ k.owner = j.fromTable /\ k.fromColumn = j.fromColumn
    /\ k.table = j.toTable /\ k.toColumn = j.toColumn

\* C19: a SELECT with a join that follows no declared foreign key is
\* rejected with the invalid-join error and issues no statement.
UndeclaredJoinRejected ==
  (IsQuery("SELECT") /\ \E i \in DOMAIN last.joins : ~ Declared(last.joins[i])) =>
    (last.status # 200 /\ last.error = ErrInvalidJoin /\ last.stmts = <<>>)

\* C20: a SELECT whose joins all follow declared foreign keys is served for
\* each join type INNER, LEFT, RIGHT and FULL, and the statement it issues
\* carries the joins.
DeclaredJoinApplied ==
  (/\ IsQuery("SELECT") /\ last.joins # <<>>
   /\ \A i \in DOMAIN last.joins :
        Declared(last.joins[i]) /\ last.joins[i].joinType \in JoinTypes) =>
    /\ last.status = 200
    /\ \E k \in DOMAIN last.issued :
         /\ "joins" \in DOMAIN last.issued[k]
         /\ [i \in DOMAIN last.issued[k].joins |-> last.issued[k].joins[i].on] = last.joins

\* C21: an INSERT whose payload holds no field besides auto-generated columns
\* (an empty payload, no payload, or only such columns) is rejected with the
\* empty-payload error, issues no INSERT statement and stores no row.
EmptyInsertRejected ==
  (IsQuery("INSERT") /\ last.table # "" /\ DOMAIN last.data \ AutoColumns(last.table) = {}) =>
    (last.error = ErrNoInsert /\ ~ Issued(IsWrite) /\ db = last.before)

\* the names of the columns of a TableSchema
ColumnNames(T) == {T.columns[i].name : i \in DOMAIN T.columns}

\* C22: every TableSchema the schema endpoint returns has at least one
\* primary key, and each of its primary keys is the name of one of its
\* columns.
PrimaryKeysAreColumns ==
  (last.endpoint = "schema" /\ last.status = 200) =>
    \A T \in last.schema :
      /\ Len(T.primaryKeys) > 0
      /\ \A i \in DOMAIN T.primaryKeys : T.primaryKeys[i] \in ColumnNames(T)

\* what the catalog says of a column, as a ColumnInfo
InfoOf(c) ==
  [name |-> c.COLUMN_NAME, type |-> c.DATA_TYPE, length |-> c.CHARACTER_MAXIMUM_LENGTH,
   nullable |-> c.IS_NULLABLE = <<"YES">>, defaultValue |-> c.COLUMN_DEFAULT,
   extra |-> c.EXTRA]

\* C23: for every table the schema endpoint returns one ColumnInfo per
\* catalog column, carrying that column's own name, type, length,
\* nullability, default and extra, and one relationship per foreign-key
\* column, carrying that key's own tables and columns.
SchemaParseRoundTrip ==
  (last.endpoint = "schema" /\ last.status = 200) =>
    /\ {T.name : T \in last.schema} = db.tables
    /\ \A T \in last.schema :
         LET cols == {c \in db.columns : c.TABLE_NAME = T.name}
             fks  == {k \in db.keys : k.TABLE_NAME = T.name /\ k.REFERENCED_TABLE_NAME # NullText}
         IN  /\ Len(T.columns) = Cardinality(cols)
             /\ {T.columns[i] : i \in DOMAIN T.columns} = {InfoOf(c) : c \in cols}
             /\ Len(T.relationships) = Cardinality(fks)
             /\ {T.relationships[i] : i \in DOMAIN T.relationships}
                  = {[table |-> k.REFERENCED_TABLE_NAME, fromColumn |-> k.COLUMN_NAME,
                      toColumn |-> k.REFERENCED_COLUMN_NAME] : k \in fks}

\* C24: while a SELECT with no selected field (or only blank names) is
\* displayed, the form's validation rejects it: "Run Query" is disabled, the
\* form lists the missing field selection, runQuery's own check answers
\* with the no-fields error, and no step sends a request to the server.
SelectNeedsFields ==
  [][ (cl.operation = "SELECT" /\ cl.table # "" /\ validFields(cl) = {}) =>
        /\ ~ isFormValid(cl)
        /\ HintFields \in formHints(cl)
        /\ noFieldSelected(cl)
        /\ last' = last /\ db' = db ]_vars

\* a SELECT with no field is displayed after the preview of a DELETE was
\* counted
NoFieldDisplayed ==
  /\ cl.operation = "SELECT" /\ cl.table # "" /\ cl.selectedFields = {}
  /\ HintFields \in formHints(cl) /\ ~ isFormValid(cl)
  /\ last.endpoint = "count"

\* C30: the component shows 'Delete completed successfully' only when the
\* request it completed last is a DELETE that the server executed and
\* answered with success; counting the rows a DELETE would match never
\* shows it.
DeleteMessageAfterDelete ==
  cl.success = MsgDeleted =>
    (last.endpoint = "query" /\ last.operation = "DELETE" /\ last.status = 200)
\* C25: the updates map the component sends for an UPDATE holds only non-key
\* columns whose value differs from the record fetched for the conditions
\* the request carries; a value a preview loaded before the conditions were
\* edited is not sent.
OnlyChangesSent ==
  [][ ( /\ \E c \in Conns : ClRunQuery(c)
        /\ cl.operation = "UPDATE"
        /\ last'.endpoint = "query" /\ last'.origin = "client" /\ last' # last )
      => \A f \in last'.updateCols :
           /\ f \notin PrimaryKeys(cl.table)
           /\ f \in DOMAIN cl.originalValues
           /\ cl.originalValues[f] # cl.updateValues[f] ]_vars

\* rows of data that refer to a key value no row holds
Dangling(data) ==
  {<<k, r>> \in ForeignKeys \X UNION {data[t] : t \in Tables} :
     /\ r \in data[k.owner]
     /\ \A p \in data[k.table] : p[k.toColumn] # r[k.fromColumn]}

\* C26: when a cascade sent by the component ends successfully, no row still
\* refers to the old key of a primary row that the UPDATE's conditions
\* matched and re-keyed, and no row refers to a key value that no row holds.
CascadeRepointsReferences ==
  [][ ( /\ run.conn # NoConn /\ run.origin = "client"
        /\ run'.conn = NoConn
        /\ last'.endpoint = "sql" /\ last'.status = 200 )
      => /\ \A p \in Rows(run.base, run.change.table, cl.conditions) :
              \A k \in ForeignKeys :
                (k.table = run.change.table /\ k.toColumn = run.change.column
                   /\ p[k.toColumn] # run.change.new)
                  => \A r \in db'[k.owner] : r[k.fromColumn] # p[k.toColumn]
         /\ Dangling(db') = {} ]_vars

\* C28: when a cascade sent by the component for a fetched record whose key
\* column and other columns were changed ends successfully, every row the
\* conditions matched is stored with all the changed values, key and non-key.
CascadeWritesAllChanges ==
  [][ ( /\ run.conn # NoConn /\ run.origin = "client"
        /\ run'.conn = NoConn
        /\ last'.endpoint = "sql" /\ last'.status = 200
        /\ cl.originalValues \in run.base[cl.table]
        /\ DOMAIN changedFields(cl.table, cl.updateValues, cl.originalValues) # {} )
      => \A p \in Rows(run.base, cl.table, cl.conditions) :
           Merge(p, Merge(changedFields(cl.table, cl.updateValues, cl.originalValues),
                          updatedPKs(cl.table, cl.updateValues, cl.originalValues)))
             \in db'[cl.table] ]_vars

\* C27: once a cascade script has ended, with or without an error, every
\* connection of the pool has foreign-key checking enabled, so no later
\* request is served with the checks off.
ForeignKeyChecksRestored ==
  run.conn = NoConn => \A c \in Conns : sess[c].fk

\* C29: when POST /reset is answered with success, the users and
\* user_permissions tables hold the rows stored when the server started,
\* however the reading of the backups interleaves with the request.
ResetRestoresSnapshot ==
  [][ (run.reset = "commit" /\ run'.reset = "off" /\ last'.status = 200)
      => ( /\ db'.users = InitUsers
           /\ db'.user_permissions = InitUserPermissions ) ]_vars

====
